---- MODULE Spec2Model ----
(***************************************************************************)
(* The command-dispatch core of the B2 command-line tool                   *)
(* (b2/console_tool.py): the command registry built by                     *)
(* ConsoleTool.__init__, the dispatch / error-translation pipeline of      *)
(* ConsoleTool.run_command, the command bodies (Command.run of every       *)
(* subclass) and the SIGINT handler keyboard_interrupt_handler.            *)
(*                                                                         *)
(* Python strings are TLA+ strings; s[i] is Ch(s, i + 1).  An optional     *)
(* Python value is a tuple: None is <<>> and a value v is <<v>>.           *)
(***************************************************************************)
EXTENDS Integers, Sequences, FiniteSets, TLC

\* ------------------------------------------------------------------------
\* Bounds of the model (not program constants).

\* Longest list of positional tokens tried after the options of a command line.
MaxPositionals == 3
\* Most SIGINT deliveries tried during one run of the program.
MaxInterrupts == 2
\* Most items an API listing (buckets, parts, files, ...) returns.
MaxItems == 1
\* Most lines of a documentation text tried besides those of the commands.
MaxDocLines == 3

\* ------------------------------------------------------------------------
\* Strings.

None == <<>>

Some(v) == <<v>>

Ch(s, i) == SubSeq(s, i, i)

LowerLetters == "abcdefghijklmnopqrstuvwxyz"

UpperLetters == "ABCDEFGHIJKLMNOPQRSTUVWXYZ"

Digits == "0123456789"

\* The 1-based position of the one-character string c in alphabet, 0 if absent.
IndexIn(c, alphabet) ==
    IF \E i \in 1..Len(alphabet) : Ch(alphabet, i) = c
    THEN CHOOSE i \in 1..Len(alphabet) : Ch(alphabet, i) = c
    ELSE 0

\* str.islower() of a one-character string.
islower(c) == IndexIn(c, LowerLetters) > 0

\* str.lower() of a one-character string.
lower(c) ==
    IF IndexIn(c, UpperLetters) > 0 THEN Ch(LowerLetters, IndexIn(c, UpperLetters)) ELSE c

\* str.startswith / str.endswith.
startswith(s, p) == Len(s) >= Len(p) /\ SubSeq(s, 1, Len(p)) = p

endswith(s, p) == Len(s) >= Len(p) /\ SubSeq(s, Len(s) - Len(p) + 1, Len(s)) = p

\* Whether needle occurs in s (Python: needle in s).
contains(s, needle) ==
    \E i \in 1..(Len(s) - Len(needle) + 1) : SubSeq(s, i, i + Len(needle) - 1) = needle

\* Whether x is an element of the list xs (Python: x in xs).
InList(x, xs) == \E i \in 1..Len(xs) : xs[i] = x

RECURSIVE UnderscoreRest(_, _)
\* ''.join(c if c.islower() else '_' + c.lower() for c in s[i:]), i 1-based.
UnderscoreRest(s, i) ==
    IF i > Len(s) THEN ""
    ELSE (IF islower(Ch(s, i)) THEN Ch(s, i) ELSE "_" \o lower(Ch(s, i)))
         \o UnderscoreRest(s, i + 1)

mixed_case_to_underscores(s) == lower(Ch(s, 1)) \o UnderscoreRest(s, 2)

\* ------------------------------------------------------------------------
\* The Command subclasses: class attributes and documentation text
\* (__doc__.split('\n')).

AuthorizeAccount ==
    [name |-> "AuthorizeAccount",
     PRIVATE |-> FALSE,
     OPTION_FLAGS |-> <<"dev", "staging">>,
     OPTION_ARGS |-> <<>>,
     LIST_ARGS |-> <<>>,
     REQUIRED |-> <<>>,
     OPTIONAL |-> <<"accountId", "applicationKey">>,
     ARG_PARSER |-> <<>>,
     doc |-> <<
        "",
        "    b2 authorize_account [<accountId>] [<applicationKey>]",
        "",
        "        Prompts for Backblaze accountID and applicationKey (unless they are given",
        "        on the command line).",
        "",
        "        The account ID is a 12-digit hex number that you can get from",
        "        your account page on backblaze.com.",
        "",
        "        The application key is a 40-digit hex number that you can get from",
        "        your account page on backblaze.com.",
        "",
        "        Stores an account auth token in ~/.b2_account_info",
        "    "
     >>]

CancelAllUnfinishedLargeFiles ==
    [name |-> "CancelAllUnfinishedLargeFiles",
     PRIVATE |-> FALSE,
     OPTION_FLAGS |-> <<>>,
     OPTION_ARGS |-> <<>>,
     LIST_ARGS |-> <<>>,
     REQUIRED |-> <<"bucketName">>,
     OPTIONAL |-> <<>>,
     ARG_PARSER |-> <<>>,
     doc |-> <<
        "",
        "    b2 cancel_all_unfinished_large_files <bucketName>",
        "",
        "        Lists all large files that have been started but not",
        "        finsished and cancels them.  Any parts that have been",
        "        uploaded will be deleted.",
        "    "
     >>]

CancelLargeFile ==
    [name |-> "CancelLargeFile",
     PRIVATE |-> FALSE,
     OPTION_FLAGS |-> <<>>,
     OPTION_ARGS |-> <<>>,
     LIST_ARGS |-> <<>>,
     REQUIRED |-> <<"fileId">>,
     OPTIONAL |-> <<>>,
     ARG_PARSER |-> <<>>,
     doc |-> <<
        "",
        "    b2 cancel_large_file <fileId>",
        "    "
     >>]

ClearAccount ==
    [name |-> "ClearAccount",
     PRIVATE |-> FALSE,
     OPTION_FLAGS |-> <<>>,
     OPTION_ARGS |-> <<>>,
     LIST_ARGS |-> <<>>,
     REQUIRED |-> <<>>,
     OPTIONAL |-> <<>>,
     ARG_PARSER |-> <<>>,
     doc |-> <<
        "",
        "    b2 clear_account",
        "",
        "        Erases everything in ~/.b2_account_info",
        "    "
     >>]

CreateBucket ==
    [name |-> "CreateBucket",
     PRIVATE |-> FALSE,
     OPTION_FLAGS |-> <<>>,
     OPTION_ARGS |-> <<>>,
     LIST_ARGS |-> <<>>,
     REQUIRED |-> <<"bucketName", "bucketType">>,
     OPTIONAL |-> <<>>,
     ARG_PARSER |-> <<>>,
     doc |-> <<
        "",
        "    b2 create_bucket <bucketName> [allPublic | allPrivate]",
        "",
        "        Creates a new bucket.  Prints the ID of the bucket created.",
        "    "
     >>]

DeleteBucket ==
    [name |-> "DeleteBucket",
     PRIVATE |-> FALSE,
     OPTION_FLAGS |-> <<>>,
     OPTION_ARGS |-> <<>>,
     LIST_ARGS |-> <<>>,
     REQUIRED |-> <<"bucketName">>,
     OPTIONAL |-> <<>>,
     ARG_PARSER |-> <<>>,
     doc |-> <<
        "",
        "    b2 delete_bucket <bucketName>",
        "",
        "        Deletes the bucket with the given name.",
        "    "
     >>]

DeleteFileVersion ==
    [name |-> "DeleteFileVersion",
     PRIVATE |-> FALSE,
     OPTION_FLAGS |-> <<>>,
     OPTION_ARGS |-> <<>>,
     LIST_ARGS |-> <<>>,
     REQUIRED |-> <<"fileName", "fileId">>,
     OPTIONAL |-> <<>>,
     ARG_PARSER |-> <<>>,
     doc |-> <<
        "",
        "    b2 delete_file_version <fileName> <fileId>",
        "",
        "        Permanently and irrevocably deletes one version of a file.",
        "    "
     >>]

DownloadFileById ==
    [name |-> "DownloadFileById",
     PRIVATE |-> FALSE,
     OPTION_FLAGS |-> <<"noProgress">>,
     OPTION_ARGS |-> <<>>,
     LIST_ARGS |-> <<>>,
     REQUIRED |-> <<"fileId", "localFileName">>,
     OPTIONAL |-> <<>>,
     ARG_PARSER |-> <<>>,
     doc |-> <<
        "",
        "    b2 download_file_by_id [--noProgress] <fileId> <localFileName>",
        "",
        "        Downloads the given file, and stores it in the given local file.",
        "",
        "        If the 'tqdm' library is installed, progress bar is displayed",
        "        on stderr.  Without it, simple text progress is printed.",
        "        Use '--noProgress' to disable progress reporting.",
        "    "
     >>]

DownloadFileByName ==
    [name |-> "DownloadFileByName",
     PRIVATE |-> FALSE,
     OPTION_FLAGS |-> <<"noProgress">>,
     OPTION_ARGS |-> <<>>,
     LIST_ARGS |-> <<>>,
     REQUIRED |-> <<"bucketName", "b2FileName", "localFileName">>,
     OPTIONAL |-> <<>>,
     ARG_PARSER |-> <<>>,
     doc |-> <<
        "",
        "    b2 download_file_by_name [--noProgress] <bucketName> <fileName> <localFileName>",
        "",
        "        Downloads the given file, and stores it in the given local file.",
        "    "
     >>]

GetFileInfo ==
    [name |-> "GetFileInfo",
     PRIVATE |-> FALSE,
     OPTION_FLAGS |-> <<>>,
     OPTION_ARGS |-> <<>>,
     LIST_ARGS |-> <<>>,
     REQUIRED |-> <<"fileId">>,
     OPTIONAL |-> <<>>,
     ARG_PARSER |-> <<>>,
     doc |-> <<
        "",
        "    b2 get_file_info <fileId>",
        "",
        "        Prints all of the information about the file, but not its contents.",
        "    "
     >>]

Help ==
    [name |-> "Help",
     PRIVATE |-> FALSE,
     OPTION_FLAGS |-> <<>>,
     OPTION_ARGS |-> <<>>,
     LIST_ARGS |-> <<>>,
     REQUIRED |-> <<>>,
     OPTIONAL |-> <<"commandName">>,
     ARG_PARSER |-> <<>>,
     doc |-> <<
        "",
        "    b2 help [commandName]",
        "",
        "        When no command is specified, prints general help.",
        "        With a valid command name, prints details about that command.",
        "    "
     >>]

HideFile ==
    [name |-> "HideFile",
     PRIVATE |-> FALSE,
     OPTION_FLAGS |-> <<>>,
     OPTION_ARGS |-> <<>>,
     LIST_ARGS |-> <<>>,
     REQUIRED |-> <<"bucketName", "fileName">>,
     OPTIONAL |-> <<>>,
     ARG_PARSER |-> <<>>,
     doc |-> <<
        "",
        "    b2 hide_file <bucketName> <fileName>",
        "",
        "        Uploads a new, hidden, version of the given file.",
        "    "
     >>]

ListBuckets ==
    [name |-> "ListBuckets",
     PRIVATE |-> FALSE,
     OPTION_FLAGS |-> <<>>,
     OPTION_ARGS |-> <<>>,
     LIST_ARGS |-> <<>>,
     REQUIRED |-> <<>>,
     OPTIONAL |-> <<>>,
     ARG_PARSER |-> <<>>,
     doc |-> <<
        "",
        "    b2 list_buckets",
        "",
        "        Lists all of the buckets in the current account.",
        "",
        "        Output lines list the bucket ID, bucket type, and bucket name,",
        "        and look like this:",
        "",
        "            98c960fd1cb4390c5e0f0519  allPublic   my-bucket",
        "    "
     >>]

ListFileVersions ==
    [name |-> "ListFileVersions",
     PRIVATE |-> FALSE,
     OPTION_FLAGS |-> <<>>,
     OPTION_ARGS |-> <<>>,
     LIST_ARGS |-> <<>>,
     REQUIRED |-> <<"bucketName">>,
     OPTIONAL |-> <<"startFileName", "startFileId", "maxToShow">>,
     ARG_PARSER |-> <<<<"maxToShow", "int">>>>,
     doc |-> <<
        "",
        "    b2 list_file_versions <bucketName> [<startFileName>] [<startFileId>] [<maxToShow>]",
        "",
        "        Lists the names of the files in a bucket, starting at the",
        "        given point.  This is a low-level operation that reports the",
        "        raw JSON returned from the service.  'b2 ls' provides a higher-",
        "        level view.",
        "    "
     >>]

ListFileNames ==
    [name |-> "ListFileNames",
     PRIVATE |-> FALSE,
     OPTION_FLAGS |-> <<>>,
     OPTION_ARGS |-> <<>>,
     LIST_ARGS |-> <<>>,
     REQUIRED |-> <<"bucketName">>,
     OPTIONAL |-> <<"startFileName", "maxToShow">>,
     ARG_PARSER |-> <<<<"maxToShow", "int">>>>,
     doc |-> <<
        "",
        "    b2 list_file_names <bucketName> [<startFileName>] [<maxToShow>]",
        "",
        "        Lists the names of the files in a bucket, starting at the",
        "        given point.",
        "    "
     >>]

ListParts ==
    [name |-> "ListParts",
     PRIVATE |-> FALSE,
     OPTION_FLAGS |-> <<>>,
     OPTION_ARGS |-> <<>>,
     LIST_ARGS |-> <<>>,
     REQUIRED |-> <<"largeFileId">>,
     OPTIONAL |-> <<>>,
     ARG_PARSER |-> <<>>,
     doc |-> <<
        "",
        "    b2 list_parts <largeFileId>",
        "",
        "        Lists all of the parts that have been uploaded for the given",
        "        large file, which must be a file that was started but not",
        "        finished or canceled.",
        "    "
     >>]

ListUnfinishedLargeFiles ==
    [name |-> "ListUnfinishedLargeFiles",
     PRIVATE |-> FALSE,
     OPTION_FLAGS |-> <<>>,
     OPTION_ARGS |-> <<>>,
     LIST_ARGS |-> <<>>,
     REQUIRED |-> <<"bucketName">>,
     OPTIONAL |-> <<>>,
     ARG_PARSER |-> <<>>,
     doc |-> <<
        "",
        "    b2 list_unfinished_large_files <bucketName>",
        "",
        "        Lists all of the large files in the bucket that were started,",
        "        but not finished or canceled.",
        "",
        "    "
     >>]

Ls ==
    [name |-> "Ls",
     PRIVATE |-> FALSE,
     OPTION_FLAGS |-> <<"long", "versions">>,
     OPTION_ARGS |-> <<>>,
     LIST_ARGS |-> <<>>,
     REQUIRED |-> <<"bucketName">>,
     OPTIONAL |-> <<"folderName">>,
     ARG_PARSER |-> <<>>,
     doc |-> <<
        "",
        "    b2 ls [--long] [--versions] <bucketName> [<folderName>]",
        "",
        "        Using the file naming convention that \"/\" separates folder",
        "        names from their contents, returns a list of the files",
        "        and folders in a given folder.  If no folder name is given,",
        "        lists all files at the top level.",
        "",
        "        The --long option produces very wide multi-column output",
        "        showing the upload date/time, file size, file id, whether it",
        "        is an uploaded file or the hiding of a file, and the file",
        "        name.  Folders don't really exist in B2, so folders are",
        "        shown with \"-\" in each of the fields other than the name.",
        "",
        "        The --version option shows all of versions of each file, not",
        "        just the most recent.",
        "    "
     >>]

MakeUrl ==
    [name |-> "MakeUrl",
     PRIVATE |-> FALSE,
     OPTION_FLAGS |-> <<>>,
     OPTION_ARGS |-> <<>>,
     LIST_ARGS |-> <<>>,
     REQUIRED |-> <<"fileId">>,
     OPTIONAL |-> <<>>,
     ARG_PARSER |-> <<>>,
     doc |-> <<
        "",
        "    b2 make_url <fileId>",
        "",
        "        Prints an URL that can be used to download the given file, if",
        "        it is public.",
        "    "
     >>]

Sync ==
    [name |-> "Sync",
     PRIVATE |-> FALSE,
     OPTION_FLAGS |-> <<"delete", "noProgress", "skipNewer", "replaceNewer">>,
     OPTION_ARGS |-> <<"keepDays", "threads">>,
     LIST_ARGS |-> <<>>,
     REQUIRED |-> <<"source", "destination">>,
     OPTIONAL |-> <<>>,
     ARG_PARSER |-> <<<<"keepDays", "float">>, <<"threads", "int">>>>,
     doc |-> <<
        "",
        "    b2 sync [--delete] [--keepDays N] [--skipNewer] [--replaceNewer] \\",
        "            [--threads N] [--noProgress] <source> <destination>",
        "",
        "        Copies multiple files from source to destination.  Optionally",
        "        deletes or hides destination files that the source does not have.",
        "",
        "        Work is done in parallel in multiple threads.  The default",
        "        number of threads is 10.  Progress is displayed on the",
        "        console unless '--noProgress' is specified.  A list of",
        "        actions taken is always printed.",
        "",
        "        Files are considered to be the same if they have the same name",
        "        and modification time.  A future enhancement may add the ability",
        "        to compare the SHA1 checksum of the files.",
        "",
        "        One of the paths must be a local file path, and the other must be",
        "        a B2 bucket path. Use \"b2://<bucketName>/<prefix>\" for B2 paths, e.g.",
        "        \"b2://my-bucket-name/a/path/prefix/\".",
        "",
        "        When a destination file is present that is not in the source, the",
        "        default is to leave it there.  Specifying --delete means to delete",
        "        destination files that are not in the source.",
        "",
        "        When the destination is B2, you have the option of leaving older",
        "        versions in place.  Specifying --keepDays will delete any older",
        "        versions more than the given number of days old, based on the",
        "        modification time of the file.  This option is not available when",
        "        the destination is a local folder.",
        "",
        "        Files at the source that have a newer modification time are always",
        "        copied to the destination.  If the destination file is newer, the",
        "        default is to report an error and stop.  But with --skipNewer set,",
        "        those files will just be skipped.  With --replaceNewer set, the",
        "        old file from the source will replace the newer one in the destination.",
        "",
        "        To make the destination exactly match the source, use:",
        "            b2 sync --delete --replaceNewer ... ...",
        "",
        "        To make the destination match the source, but retain previous versions",
        "        for 30 days:",
        "            b2 sync --keepDays 30 --replaceNewer ... b2://...",
        "",
        "    "
     >>]

TestHttp ==
    [name |-> "TestHttp",
     PRIVATE |-> TRUE,
     OPTION_FLAGS |-> <<>>,
     OPTION_ARGS |-> <<>>,
     LIST_ARGS |-> <<>>,
     REQUIRED |-> <<>>,
     OPTIONAL |-> <<>>,
     ARG_PARSER |-> <<>>,
     doc |-> <<
        "",
        "    b2 test_http",
        "",
        "        PRIVATE.  Exercises the HTTP layer.",
        "    "
     >>]

TestRawApi ==
    [name |-> "TestRawApi",
     PRIVATE |-> TRUE,
     OPTION_FLAGS |-> <<>>,
     OPTION_ARGS |-> <<>>,
     LIST_ARGS |-> <<>>,
     REQUIRED |-> <<>>,
     OPTIONAL |-> <<>>,
     ARG_PARSER |-> <<>>,
     doc |-> <<
        "",
        "    b2 test_raw_api",
        "",
        "        PRIVATE.  Exercises the B2RawApi class.",
        "    "
     >>]

TestUploadUrlConcurrency ==
    [name |-> "TestUploadUrlConcurrency",
     PRIVATE |-> TRUE,
     OPTION_FLAGS |-> <<>>,
     OPTION_ARGS |-> <<>>,
     LIST_ARGS |-> <<>>,
     REQUIRED |-> <<>>,
     OPTIONAL |-> <<>>,
     ARG_PARSER |-> <<>>,
     doc |-> <<
        "",
        "    b2 test_upload_url_concurrency",
        "",
        "        PRIVATE.  Exercises the HTTP layer.",
        "    "
     >>]

UpdateBucket ==
    [name |-> "UpdateBucket",
     PRIVATE |-> FALSE,
     OPTION_FLAGS |-> <<>>,
     OPTION_ARGS |-> <<>>,
     LIST_ARGS |-> <<>>,
     REQUIRED |-> <<"bucketName", "bucketType">>,
     OPTIONAL |-> <<>>,
     ARG_PARSER |-> <<>>,
     doc |-> <<
        "",
        "    b2 update_bucket <bucketName> [allPublic | allPrivate]",
        "",
        "        Updates the bucketType of an existing bucket.  Prints the ID",
        "        of the bucket updated.",
        "    "
     >>]

UploadFile ==
    [name |-> "UploadFile",
     PRIVATE |-> FALSE,
     OPTION_FLAGS |-> <<"noProgress", "quiet">>,
     OPTION_ARGS |-> <<"sha1", "contentType", "threads", "partSize">>,
     LIST_ARGS |-> <<"info">>,
     REQUIRED |-> <<"bucketName", "localFilePath", "b2FileName">>,
     OPTIONAL |-> <<>>,
     ARG_PARSER |-> <<<<"threads", "int">>>>,
     doc |-> <<
        "",
        "    b2 upload_file [--sha1 <sha1sum>] [--contentType <contentType>] [--info <key>=<value>]* \\",
        "            [--noProgress] [--threads N] [--partSize <partSize>] <bucketName> <localFilePath> <b2FileName>",
        "",
        "        Uploads one file to the given bucket.  Uploads the contents",
        "        of the local file or specify '-' for STDIN, and assigns the given name to the B2 file.",
        "",
        "        By default, upload_file will compute the sha1 checksum of the file",
        "        to be uploaded.  But, if you already have it, you can provide it",
        "        on the command line to save a little time.",
        "",
        "        Content type is optional.  If not set, it will be set based on the",
        "        file extension.",
        "",
        "        The maximum number of threads to use to upload parts of a large file",
        "        is specified by '--threads'.  It has no effect on small files (under 200MB).",
        "        Default is 10.",
        "",
        "        If file exceeds partSize, multipart large file upload will be initiated and file will be",
        "        split into partSize parts. Must be specified with units, for example 500MB or 1GiB.",
        "        Valid range: 100MB <= partSize <= 5GB.",
        "        Default is 100MB.",
        "",
        "        If the 'tqdm' library is installed, progress bar is displayed",
        "        on stderr.  Without it, simple text progress is printed.",
        "        Use '--noProgress' to disable progress reporting.",
        "",
        "        Each fileInfo is of the form \"a=b\".",
        "    "
     >>]

Version ==
    [name |-> "Version",
     PRIVATE |-> FALSE,
     OPTION_FLAGS |-> <<>>,
     OPTION_ARGS |-> <<>>,
     LIST_ARGS |-> <<>>,
     REQUIRED |-> <<>>,
     OPTIONAL |-> <<>>,
     ARG_PARSER |-> <<>>,
     doc |-> <<
        "",
        "    b2 version",
        "",
        "        Prints the version number of this tool.",
        "    "
     >>]

\* Command.__subclasses__() of b2/console_tool.py, in declaration order.
Command__subclasses__ ==
    <<AuthorizeAccount, CancelAllUnfinishedLargeFiles, CancelLargeFile, ClearAccount,
      CreateBucket, DeleteBucket, DeleteFileVersion, DownloadFileById, DownloadFileByName,
      GetFileInfo, Help, HideFile, ListBuckets, ListFileVersions, ListFileNames, ListParts,
      ListUnfinishedLargeFiles, Ls, MakeUrl, Sync, TestHttp, TestRawApi,
      TestUploadUrlConcurrency, UpdateBucket, UploadFile, Version>>

\* A Command subclass declared outside console_tool.py by a program that
\* imports it (Command.__subclasses__() lists every loaded subclass).  Its
\* name derives the canonical name list_buckets, as ListBuckets does.
ExtensionListBuckets ==
    [name |-> "listBuckets",
     PRIVATE |-> TRUE,
     OPTION_FLAGS |-> <<>>,
     OPTION_ARGS |-> <<>>,
     LIST_ARGS |-> <<>>,
     REQUIRED |-> <<"bucketName">>,
     OPTIONAL |-> <<>>,
     ARG_PARSER |-> <<>>,
     doc |-> <<
        "",
        "    b2 list_buckets <bucketName>",
        "",
        "        Lists one bucket.",
        "    "
     >>]

LoadedClasses ==
    {Command__subclasses__[i] : i \in 1..Len(Command__subclasses__)} \cup {ExtensionListBuckets}

\* The class object of a class name (registry values are references to classes).
Cls(name) == CHOOSE c \in LoadedClasses : c.name = name

ClassNames(classes) == [i \in 1..Len(classes) |-> classes[i].name]

\* The lists Command.__subclasses__() may return at start-up.
SubclassLists ==
    {ClassNames(Command__subclasses__),
     ClassNames(Command__subclasses__ \o <<ExtensionListBuckets>>)}

\* dict((mixed_case_to_underscores(cls.__name__), cls) for cls in classes):
\* of two pairs with the same key the later one stays.
MakeRegistry(classes) ==
    LET key(i) == mixed_case_to_underscores(classes[i])
    IN  [k \in {key(i) : i \in 1..Len(classes)} |->
            classes[CHOOSE i \in 1..Len(classes) :
                        key(i) = k /\ \A j \in 1..Len(classes) : key(j) = k => j <= i]]

\* ------------------------------------------------------------------------
\* Text: ordering, join, textwrap.dedent, summary_line, command_usage.

\* The printable ASCII characters used by the tool, in code-point order
\* (str comparison).
Ascii ==
    " !\"#$%&'()*+,-./0123456789:;<=>?@ABCDEFGHIJKLMNOPQRSTUVWXYZ[\\]^_abcdefghijklmnopqrstuvwxyz{|}~"

ord(c) == IndexIn(c, Ascii)

RECURSIVE StrLess(_, _)
\* a < b on Python strings.
StrLess(a, b) ==
    IF Len(b) = 0 THEN FALSE
    ELSE IF Len(a) = 0 THEN TRUE
    ELSE IF Ch(a, 1) = Ch(b, 1) THEN StrLess(Tail(a), Tail(b))
    ELSE ord(Ch(a, 1)) < ord(Ch(b, 1))

RECURSIVE Insert(_, _)
\* The sorted list xs with the string x put in its place.
Insert(x, xs) ==
    IF Len(xs) = 0 THEN <<x>>
    ELSE IF StrLess(x, xs[1]) THEN <<x>> \o xs
    ELSE <<xs[1]>> \o Insert(x, Tail(xs))

RECURSIVE sorted(_)
\* sorted(keys) of a set of strings.
sorted(S) ==
    IF S = {} THEN <<>>
    ELSE LET x == CHOOSE a \in S : TRUE
         IN  Insert(x, sorted(S \ {x}))

RECURSIVE join(_, _)
\* sep.join(lines)
join(sep, lines) ==
    IF Len(lines) = 0 THEN ""
    ELSE IF Len(lines) = 1 THEN lines[1]
    ELSE lines[1] \o sep \o join(sep, Tail(lines))

IsSpace(c) == c = " " \/ c = "\t"

RECURSIVE LeadingSpaces(_, _)
\* The number of whitespace characters line starts with, counted from i on.
LeadingSpaces(line, i) ==
    IF i <= Len(line) /\ IsSpace(Ch(line, i)) THEN LeadingSpaces(line, i + 1) ELSE i - 1

\* line.strip() == ''
IsBlank(line) == LeadingSpaces(line, 1) = Len(line)

\* The leading whitespace of a line.
Indent(line) == SubSeq(line, 1, LeadingSpaces(line, 1))

RECURSIVE CommonLength(_, _, _)
\* The length of the longest common prefix of a and b, counted from i on.
CommonLength(a, b, i) ==
    IF i <= Len(a) /\ i <= Len(b) /\ Ch(a, i) = Ch(b, i)
    THEN CommonLength(a, b, i + 1)
    ELSE i - 1

\* The longest common prefix of two strings.
CommonPrefix(a, b) == SubSeq(a, 1, CommonLength(a, b, 1))

RECURSIVE Margin(_, _)
\* textwrap.dedent: the common leading whitespace of the non-blank lines
\* from index i on; found says whether one was seen before.
Margin(lines, i) ==
    IF i > Len(lines) THEN None
    ELSE LET rest == Margin(lines, i + 1)
         IN  IF IsBlank(lines[i]) THEN rest
             ELSE IF rest = None THEN Some(Indent(lines[i]))
             ELSE Some(CommonPrefix(Indent(lines[i]), rest[1]))

\* textwrap.dedent(text).split('\n') for text = '\n'.join(lines): whitespace-only
\* lines become empty, the common margin is removed from the others.
dedent(lines) ==
    LET m == Margin(lines, 1)
        n == IF m = None THEN 0 ELSE Len(m[1])
    IN  [i \in 1..Len(lines) |->
            IF IsBlank(lines[i]) THEN "" ELSE SubSeq(lines[i], n + 1, Len(lines[i]))]

RECURSIVE DropBlank(_)
\* while lines[0].strip() == '': lines = lines[1:]
DropBlank(lines) == IF IsBlank(lines[1]) THEN DropBlank(Tail(lines)) ELSE lines

RECURSIVE TakeContinued(_)
\* for line in lines: result.append(line); if not line.endswith('\\'): break
TakeContinued(lines) ==
    IF Len(lines) = 0 THEN <<>>
    ELSE IF ~endswith(lines[1], "\\") THEN <<lines[1]>>
    ELSE <<lines[1]>> \o TakeContinued(Tail(lines))

\* A summary that is always the first non-blank line alone.
summary_first_line_only(cls) == DropBlank(dedent(cls.doc))[1]

\* Command.summary_line
summary_line(cls) == join("\n", TakeContinued(DropBlank(dedent(cls.doc))))

\* A usage text that is only the summary.
command_usage_summary(cls) == summary_line(cls)

\* Command.command_usage: textwrap.dedent(cls.__doc__)
command_usage(cls) == join("\n", dedent(cls.doc))

\* summary_line() and command_usage() of every loaded class, by class name.
SummaryLines == [n \in {c.name : c \in LoadedClasses} |-> summary_line(Cls(n))]

CommandUsages == [n \in {c.name : c \in LoadedClasses} |-> command_usage(Cls(n))]

\* ------------------------------------------------------------------------
\* The argument schema parser (b2/parse_args.py), after section 4.1 of the
\* specification, and utils.human2bytes, after UploadFile.__doc__.

\* The names a command declares.
DeclaredNames(cls) ==
    {cls.OPTION_FLAGS[i] : i \in 1..Len(cls.OPTION_FLAGS)}
        \cup {cls.OPTION_ARGS[i] : i \in 1..Len(cls.OPTION_ARGS)}
        \cup {cls.LIST_ARGS[i] : i \in 1..Len(cls.LIST_ARGS)}
        \cup {cls.REQUIRED[i] : i \in 1..Len(cls.REQUIRED)}
        \cup {cls.OPTIONAL[i] : i \in 1..Len(cls.OPTIONAL)}

\* Flags default to False, list options to [], everything else to None.
DefaultArgs(cls) ==
    [n \in DeclaredNames(cls) |->
        IF InList(n, cls.OPTION_FLAGS) THEN FALSE ELSE <<>>]

\* The name of the coercion function of a field, "" when it has none.
ArgParserOf(cls, name) ==
    IF \E i \in 1..Len(cls.ARG_PARSER) : cls.ARG_PARSER[i][1] = name
    THEN cls.ARG_PARSER[CHOOSE i \in 1..Len(cls.ARG_PARSER) : cls.ARG_PARSER[i][1] = name][2]
    ELSE ""

IsDigits(s) == Len(s) > 0 /\ \A i \in 1..Len(s) : IndexIn(Ch(s, i), Digits) > 0

RECURSIVE DigitsValue(_)
\* The number a string of decimal digits denotes.
DigitsValue(s) ==
    IF Len(s) = 0 THEN 0
    ELSE 10 * DigitsValue(SubSeq(s, 1, Len(s) - 1)) + (IndexIn(Ch(s, Len(s)), Digits) - 1)

\* int(s): None on malformed input (the coercion fails), else the value.
CoerceInt(s) ==
    IF IsDigits(s) THEN Some(DigitsValue(s))
    ELSE IF Len(s) > 1 /\ Ch(s, 1) = "-" /\ IsDigits(Tail(s)) THEN Some(0 - DigitsValue(Tail(s)))
    ELSE IF Len(s) > 1 /\ Ch(s, 1) = "+" /\ IsDigits(Tail(s)) THEN Some(DigitsValue(Tail(s)))
    ELSE None

\* float(s): None on malformed input, else the value (kept as its text).
CoerceFloat(s) ==
    LET body == IF Len(s) > 0 /\ Ch(s, 1) \in {"-", "+"} THEN Tail(s) ELSE s
        ok == \/ IsDigits(body)
              \/ \E k \in 1..Len(body) :
                    /\ Ch(body, k) = "."
                    /\ Len(body) > 1
                    /\ (k > 1 => IsDigits(SubSeq(body, 1, k - 1)))
                    /\ (k < Len(body) => IsDigits(SubSeq(body, k + 1, Len(body))))
    IN  IF ok THEN Some([float |-> s]) ELSE None

\* The typed value of a token for a field: None when its coercion fails.
Coerce(cls, name, tok) ==
    IF ArgParserOf(cls, name) = "int" THEN CoerceInt(tok)
    ELSE IF ArgParserOf(cls, name) = "float" THEN CoerceFloat(tok)
    ELSE Some(tok)

\* The option name a token spells ("--name"), "" when it spells none.
OptionName(tok) == IF startswith(tok, "--") THEN SubSeq(tok, 3, Len(tok)) ELSE ""

RECURSIVE Scan(_, _, _, _, _)
\* The left-to-right scan of section 4.1 from token i on, npos positionals
\* being filled already: None on a schema violation, else the record.
Scan(cls, toks, i, args, npos) ==
    LET tok == toks[i]
        opt == OptionName(tok)
        positional == cls.REQUIRED \o cls.OPTIONAL
    IN  IF i > Len(toks)
        THEN (IF npos < Len(cls.REQUIRED) THEN None ELSE Some(args))
        ELSE IF opt # "" /\ InList(opt, cls.OPTION_FLAGS)
        THEN Scan(cls, toks, i + 1, [args EXCEPT ![opt] = TRUE], npos)
        ELSE IF opt # "" /\ (InList(opt, cls.OPTION_ARGS) \/ InList(opt, cls.LIST_ARGS))
        THEN (IF i + 1 > Len(toks) \/ Coerce(cls, opt, toks[i + 1]) = None
              THEN None
              ELSE IF InList(opt, cls.OPTION_ARGS)
              THEN Scan(cls, toks, i + 2,
                        [args EXCEPT ![opt] = Coerce(cls, opt, toks[i + 1])], npos)
              ELSE Scan(cls, toks, i + 2,
                        [args EXCEPT ![opt] = @ \o Coerce(cls, opt, toks[i + 1])], npos))
        ELSE IF npos >= Len(positional) \/ Coerce(cls, positional[npos + 1], tok) = None
        THEN None
        ELSE Scan(cls, toks, i + 1,
                  [args EXCEPT ![positional[npos + 1]] = Coerce(cls, positional[npos + 1], tok)],
                  npos + 1)

\* Command.parse_arg_list: None, or <<args>> with args the argument record.
\* An option or positional value v is held as <<v>>, an absent one as <<>>;
\* a list option is the list of its values.
parse_arg_list(cls, arg_list) == Scan(cls, arg_list, 1, DefaultArgs(cls), 0)

\* The number of leading decimal digits of s.
LeadingDigits(s) ==
    CHOOSE k \in 0..Len(s) :
        /\ \A i \in 1..k : IndexIn(Ch(s, i), Digits) > 0
        /\ (k < Len(s) => IndexIn(Ch(s, k + 1), Digits) = 0)

\* The units human2bytes knows.
Units == {"B", "KB", "MB", "GB", "KiB", "MiB", "GiB"}

\* The bytes of one unit, as <<millions, rest>>: q * 10^6 + r bytes.
UnitBytes(unit) ==
    CASE unit = "B" -> <<0, 1>>
      [] unit = "KB" -> <<0, 1000>>
      [] unit = "MB" -> <<1, 0>>
      [] unit = "GB" -> <<1000, 0>>
      [] unit = "KiB" -> <<0, 1024>>
      [] unit = "MiB" -> <<1, 48576>>
      [] unit = "GiB" -> <<1073, 741824>>

\* utils.human2bytes of a number followed by a unit ("500MB", "1GiB"): the
\* byte count as <<millions, rest>>, since it does not fit TLC's integers.
\* For any other text it is None: the function has no value and raises.
human2bytes(s) ==
    LET k == LeadingDigits(s)
        num == DigitsValue(SubSeq(s, 1, k))
        u == UnitBytes(SubSeq(s, k + 1, Len(s)))
    IN  IF k = 0 \/ SubSeq(s, k + 1, Len(s)) \notin Units THEN None
        ELSE <<num * u[1] + ((num * u[2]) \div 1000000), (num * u[2]) % 1000000>>

\* a < b on byte counts.
BytesLess(a, b) == a[1] < b[1] \/ (a[1] = b[1] /\ a[2] < b[2])

\* ------------------------------------------------------------------------
\* The command bodies (Command.run of each subclass) as straight-line
\* programs over the instructions below.  Text that comes from the API
\* client's results is written <...>.

I(op, a, b, n) == [op |-> op, a |-> a, b |-> b, n |-> n]

\* self._print(text): one print to the output stream.
P(text) == I("print", text, "", 0)

\* A print under a condition on the API client's data.
PIf(text) == I("print_if", text, "", 0)

\* Command._print_stderr(prefix + str(e)) in an except clause.
PErrExc(prefix) == I("print_stderr_exc", prefix, "", 0)

\* A call of the API client (or of a collaborator that calls it): it returns
\* or raises a domain failure.
Api(name) == I("api", name, "", 0)

\* An API call inside try: ... except B2Error, whose handler starts n
\* instructions further on.
ApiTry(name, n) == I("api_try", name, "", n)

\* A call of the API client that only stores a setting.
Call(name) == I("call", name, "", 0)

\* for item in <the last result>: the next n instructions are the loop body,
\* closed by EndFor(n).
For(n) == I("for", "", "", n)

EndFor(n) == I("endfor", "", "", n)

\* raise type(msg)
Raise(type, msg) == I("raise", type, msg, 0)

\* An exception that is no B2Error is raised.
RaiseOther(type, msg) == I("raise_other", type, msg, 0)

\* return n
Ret(n) == I("return", "", "", n)

\* return self.console_tool._usage_and_fail()
RetUsage == I("usage", "", "", 0)

\* args.name of a field that is set.
Val(args, name) == args[name][1]

AuthorizeAccount_run(args) ==
    LET realm == IF args["dev"] THEN "dev"
                 ELSE IF args["staging"] THEN "staging" ELSE "production"
    IN  <<P("Using <REALM_URLS[" \o realm \o "]>")>>
        \o (IF args["accountId"] = None THEN <<Call("six.moves.input")>> ELSE <<>>)
        \o (IF args["applicationKey"] = None THEN <<Call("getpass.getpass")>> ELSE <<>>)
        \o <<ApiTry("authorize_account", 2),
             Ret(0),
             PErrExc("ERROR: unable to authorize account: "),
             Ret(1)>>

CancelAllUnfinishedLargeFiles_run(args) ==
    <<Api("get_bucket_by_name"),
      Api("list_unfinished_large_files"),
      For(2),
      Api("cancel_large_file"),
      P("<file_id> canceled"),
      EndFor(2),
      Ret(0)>>

CancelLargeFile_run(args) ==
    <<Api("cancel_large_file"), P(Val(args, "fileId") \o " canceled"), Ret(0)>>

ClearAccount_run(args) == <<Api("account_info.clear"), Ret(0)>>

CreateBucket_run(args) == <<Api("create_bucket"), P("<bucket.id_>"), Ret(0)>>

DeleteBucket_run(args) ==
    <<Api("get_bucket_by_name"), Api("delete_bucket"), P("<json response>"), Ret(0)>>

DeleteFileVersion_run(args) ==
    <<Api("delete_file_version"), P("<json response>"), Ret(0)>>

\* ConsoleTool._print_download_info (its return value is not used).
print_download_info ==
    <<P("File name:    <file_name>"),
      P("File id:      <file_id>"),
      P("File size:    <content_length>"),
      P("Content type: <content_type>"),
      P("Content sha1: <content_sha1>"),
      For(1),
      P("INFO <name>: <value>"),
      EndFor(1),
      PIf("checksum matches")>>

DownloadFileById_run(args) ==
    <<Api("download_file_by_id")>> \o print_download_info \o <<Ret(0)>>

DownloadFileByName_run(args) ==
    <<Api("get_bucket_by_name"), Api("download_file_by_name")>>
        \o print_download_info \o <<Ret(0)>>

GetFileInfo_run(args) == <<Api("get_file_info"), P("<json response>"), Ret(0)>>

\* A help that refuses private commands.
Help_run_hides_private(args, registry) ==
    IF args["commandName"] = None THEN <<RetUsage>>
    ELSE IF Val(args, "commandName") \notin DOMAIN registry THEN <<RetUsage>>
    ELSE IF Cls(registry[Val(args, "commandName")]).PRIVATE THEN <<RetUsage>>
    ELSE <<P(CommandUsages[registry[Val(args, "commandName")]]), Ret(1)>>

Help_run(args, registry) ==
    IF args["commandName"] = None THEN <<RetUsage>>
    ELSE IF Val(args, "commandName") \notin DOMAIN registry THEN <<RetUsage>>
    ELSE <<P(CommandUsages[registry[Val(args, "commandName")]]), Ret(1)>>

HideFile_run(args) ==
    <<Api("get_bucket_by_name"), Api("hide_file"), P("<json response>"), Ret(0)>>

ListBuckets_run(args) ==
    <<Api("list_buckets"), For(1), P("<id_>  <type_>  <name>"), EndFor(1), Ret(0)>>

ListFileVersions_run(args) ==
    <<Api("get_bucket_by_name"), Api("list_file_versions"), P("<json response>"), Ret(0)>>

ListFileNames_run(args) ==
    <<Api("get_bucket_by_name"), Api("list_file_names"), P("<json response>"), Ret(0)>>

ListParts_run(args) ==
    <<Api("list_parts"),
      For(1),
      P("<part_number>  <content_length>  <content_sha1>"),
      EndFor(1),
      Ret(0)>>

ListUnfinishedLargeFiles_run(args) ==
    <<Api("get_bucket_by_name"),
      Api("list_unfinished_large_files"),
      For(1),
      P("<file_id> <file_name> <content_type> <file_info>"),
      EndFor(1),
      Ret(0)>>

Ls_run(args) ==
    <<Api("get_bucket_by_name"),
      Api("ls"),
      For(1),
      IF ~args["long"] THEN P("<folder_name or file_name>") ELSE P("<ls entry>"),
      EndFor(1),
      Ret(0)>>

MakeUrl_run(args) == <<Api("get_download_url_for_fileid"), P("<download url>"), Ret(0)>>

Sync_run(args) ==
    <<Call("set_thread_pool_size"),
      Api("parse_sync_folder"),
      Api("parse_sync_folder"),
      Api("sync_folders"),
      Ret(0)>>

TestHttp_run(args) == <<Api("test_http"), Ret(0)>>

TestRawApi_run(args) == <<Api("test_raw_api"), Ret(0)>>

TestUploadUrlConcurrency_run(args) == <<Api("test_upload_url_concurrency"), Ret(0)>>

UpdateBucket_run(args) ==
    <<Api("get_bucket_by_name"), Api("set_type"), P("<json response>"), Ret(0)>>

\* len(info.split('=', 1)) == 1
BadInfo(info) == ~contains(info, "=")

\* The part-size check of UploadFile.run.
InvalidPartSize(part_size_bytes) ==
    \/ BytesLess(part_size_bytes, human2bytes("100MB"))
    \/ BytesLess(human2bytes("5GB"), part_size_bytes)

\* An upload_file that checks the part size after the bucket lookup.
UploadFile_run_late_check(args) ==
    LET size == IF args["partSize"] = None \/ args["partSize"] = Some("") THEN "100MB"
                ELSE Val(args, "partSize")
    IN  <<Call("set_thread_pool_size"), Api("get_bucket_by_name")>>
        \o (IF human2bytes(size) = None THEN <<RaiseOther("ValueError", size)>>
            ELSE IF InvalidPartSize(human2bytes(size))
            THEN <<P("Invalid partSize specified"), Ret(-1)>>
            ELSE <<Api("upload_local_file"), P("<json response>"), Ret(0)>>)

UploadFile_run(args) ==
    LET info == args["info"]
        bad == {i \in 1..Len(info) : BadInfo(info[i])}
        first == CHOOSE i \in bad : \A j \in bad : i <= j
        size == IF args["partSize"] = None \/ args["partSize"] = Some("") THEN "100MB"
                ELSE Val(args, "partSize")
    IN  IF bad # {} THEN <<Raise("BadFileInfo", info[first])>>
        ELSE <<Call("set_thread_pool_size")>>
             \o (IF human2bytes(size) = None THEN <<RaiseOther("ValueError", size)>>
                 ELSE IF InvalidPartSize(human2bytes(size))
                 THEN <<P("Invalid partSize specified"), Ret(-1)>>
                 ELSE <<Api("get_bucket_by_name")>>
                      \o (IF Val(args, "localFilePath") = "-"
                          THEN <<Api("upload_stream")>>
                          ELSE <<Api("upload_local_file")>>)
                      \o (IF ~args["quiet"]
                          THEN <<Api("get_download_url"),
                                 P("URL by file name: <download url>"),
                                 Api("get_download_url_for_fileid"),
                                 P("URL by fileId: <download url>")>>
                          ELSE <<>>)
                      \o <<P("<json response>"), Ret(0)>>)

Version_run(args) == <<P("b2 command line tool, version <VERSION>"), Ret(0)>>

\* The body of the extension class.
ExtensionListBuckets_run(args) ==
    <<Api("get_bucket_by_name"), P("<id_>  <type_>  <name>"), Ret(0)>>

\* command.run(args) of the class named name; registry is
\* console_tool.command_name_to_class.
Body(name, args, registry) ==
    CASE name = "AuthorizeAccount" -> AuthorizeAccount_run(args)
      [] name = "CancelAllUnfinishedLargeFiles" -> CancelAllUnfinishedLargeFiles_run(args)
      [] name = "CancelLargeFile" -> CancelLargeFile_run(args)
      [] name = "ClearAccount" -> ClearAccount_run(args)
      [] name = "CreateBucket" -> CreateBucket_run(args)
      [] name = "DeleteBucket" -> DeleteBucket_run(args)
      [] name = "DeleteFileVersion" -> DeleteFileVersion_run(args)
      [] name = "DownloadFileById" -> DownloadFileById_run(args)
      [] name = "DownloadFileByName" -> DownloadFileByName_run(args)
      [] name = "GetFileInfo" -> GetFileInfo_run(args)
      [] name = "Help" -> Help_run(args, registry)
      [] name = "HideFile" -> HideFile_run(args)
      [] name = "ListBuckets" -> ListBuckets_run(args)
      [] name = "ListFileVersions" -> ListFileVersions_run(args)
      [] name = "ListFileNames" -> ListFileNames_run(args)
      [] name = "ListParts" -> ListParts_run(args)
      [] name = "ListUnfinishedLargeFiles" -> ListUnfinishedLargeFiles_run(args)
      [] name = "Ls" -> Ls_run(args)
      [] name = "MakeUrl" -> MakeUrl_run(args)
      [] name = "Sync" -> Sync_run(args)
      [] name = "TestHttp" -> TestHttp_run(args)
      [] name = "TestRawApi" -> TestRawApi_run(args)
      [] name = "TestUploadUrlConcurrency" -> TestUploadUrlConcurrency_run(args)
      [] name = "UpdateBucket" -> UpdateBucket_run(args)
      [] name = "UploadFile" -> UploadFile_run(args)
      [] name = "Version" -> Version_run(args)
      [] name = "listBuckets" -> ExtensionListBuckets_run(args)

\* ------------------------------------------------------------------------
\* The inputs tried.

\* The command lists Command.__subclasses__() of console_tool.py derives.
BuiltinNames == DOMAIN MakeRegistry(ClassNames(Command__subclasses__))

\* Tokens tried as argv[1]: every canonical name, and names that differ
\* from one in case or are unknown.
ActionTokens == BuiltinNames \cup {"List_buckets", "LIST_BUCKETS", "listBuckets", "bogus"}

\* Option tokens tried in front of the positional tokens.
OptionLists ==
    {<<"--partSize", "50MB">>,
     <<"--partSize", "100MB">>,
     <<"--partSize", "5GB">>,
     <<"--partSize", "6GB">>,
     <<"--partSize", "">>,
     <<"--partSize">>,
     <<"--partSize", "big">>,
     <<"--info", "bad", "--partSize", "50MB">>,
     <<"--info", "a=b", "--partSize", "1GiB">>,
     <<"--quiet", "--threads", "7">>,
     <<"--threads", "x">>,
     <<"--long">>,
     <<"--dev">>}

\* The commands the option tokens are tried with.
OptionActions == {"upload_file", "sync", "ls", "authorize_account"}

PositionalTokens == {"7", "-"}

RECURSIVE SeqsUpTo(_, _)
\* The sequences over S of length at most n.
SeqsUpTo(S, n) ==
    IF n = 0 THEN {<<>>}
    ELSE LET shorter == SeqsUpTo(S, n - 1)
         IN  shorter \cup {Append(s, x) : s \in shorter, x \in S}

\* The command lines tried (sys.argv): no command, every command token
\* with positional tokens only, help for every command token, and some
\* commands with options in front.
Argvs ==
    {<<>>, <<"b2">>}
        \cup {<<"b2", "help", a>> : a \in ActionTokens}
        \cup {<<"b2", a>> \o p :
                a \in ActionTokens, p \in SeqsUpTo(PositionalTokens, MaxPositionals)}
        \cup {<<"b2", a>> \o o \o p :
                a \in OptionActions, o \in OptionLists,
                p \in SeqsUpTo(PositionalTokens, MaxPositionals)}

\* The domain failures an API call raises (b2/exception.py: each is a
\* B2Error, MissingAccountData being a subclass of it).
DomainFailures ==
    {[type |-> "MissingAccountData", msg |-> "Missing account data"],
     [type |-> "B2Error", msg |-> "Bucket not found"]}

\* str(e)
str(e) == e.msg

\* ------------------------------------------------------------------------
\* The state of one run of the program (main).

VARIABLES
    subclasses,             \* Command.__subclasses__(): class names in order
    command_name_to_class,  \* ConsoleTool.command_name_to_class
    handler,                \* the disposition of SIGINT
    shutting_down,          \* the flag set by utils.set_shutting_down
    argv,                   \* the decoded command line
    pc,                     \* where main / run_command is
    command,                \* run_command's command: the name of its class
    args,                   \* run_command's args: None or <<record>>
    bpc,                    \* the instruction the command body is at
    iter,                   \* loop iterations the body has started
    exc,                    \* the exception being handled: None or <<e>>
    escaped,                \* the exception that left the body: None or <<e>>
    stdout,                 \* what was printed to the output stream
    stderr,                 \* what was printed to the diagnostic stream
    api_calls,              \* the API client operations called, in order
    result,                 \* how run_command ended
    interrupts,             \* the SIGINT deliveries: where, and the flag then
    runs,                   \* how often a command body was invoked
    branches,               \* the except clauses of run_command that ran
    process,                \* how the process ended
    doc,                    \* a __doc__ handed to summary_line: its lines
    summary                 \* what summary_line returned for it: None or <<text>>

vars ==
    <<subclasses, command_name_to_class, handler, shutting_down, argv, pc, command, args,
      bpc, iter, exc, escaped, stdout, stderr, api_calls, result, interrupts, runs, branches,
      process, doc, summary>>

Running == [kind |-> "running", value |-> None, exc |-> ""]

\* run_command returned v (None when v = <<>>).
Returned(v) == [kind |-> "return", value |-> v, exc |-> ""]

\* run_command was left by an exception of the given type.
Raised(type) == [kind |-> "raise", value |-> None, exc |-> type]

Init ==
    /\ subclasses \in SubclassLists
    /\ command_name_to_class = <<>>
    /\ handler = "default"
    /\ shutting_down = FALSE
    /\ argv = <<>>
    /\ pc = "main"
    /\ command = ""
    /\ args = None
    /\ bpc = 0
    /\ iter = 0
    /\ exc = None
    /\ escaped = None
    /\ stdout = <<>>
    /\ stderr = <<>>
    /\ api_calls = <<>>
    /\ result = Running
    /\ interrupts = <<>>
    /\ runs = 0
    /\ branches = <<>>
    /\ process = [state |-> "running", code |-> None]
    /\ doc = <<>>
    /\ summary = None

\* for name in sorted(keys): if not cls.PRIVATE: print '    ' + summary_line()
UsageListing(registry) ==
    LET names == sorted(DOMAIN registry)
        RECURSIVE L(_)
        L(i) == IF i > Len(names) THEN <<>>
                ELSE (IF Cls(registry[names[i]]).PRIVATE THEN <<>>
                      ELSE <<"    " \o SummaryLines[registry[names[i]]]>>) \o L(i + 1)
    IN  L(1)

\* What ConsoleTool._usage_and_fail prints to the diagnostic stream.
UsageLines(registry) ==
    <<"This program provides command-line access to the B2 service.", "", "Usages:", "">>
        \o UsageListing(registry)
        \o <<"", "For more details on one command: b2 help <command>", "">>

\* ------------------------------------------------------------------------
\* main and ConsoleTool.run_command.

\* main: ct = ConsoleTool(...); decoded_argv = decode_sys_argv()
main_construct ==
    /\ pc = "main"
    /\ command_name_to_class' = MakeRegistry(subclasses)
    /\ \E a \in Argvs : argv' = a
    /\ pc' = "run_command"
    /\ UNCHANGED <<doc, summary, escaped, subclasses, handler, shutting_down, command, args, bpc, iter, exc, stdout,
                   stderr, api_calls, result, interrupts, runs, branches, process>>

\* signal.signal(signal.SIGINT, keyboard_interrupt_handler)
run_command_install ==
    /\ pc = "run_command"
    /\ handler' = "keyboard_interrupt_handler"
    /\ pc' = "start"
    /\ UNCHANGED <<doc, summary, escaped, subclasses, command_name_to_class, shutting_down, argv, command, args, bpc,
                   iter, exc, stdout, stderr, api_calls, result, interrupts, runs, branches,
                   process>>

\* if len(argv) < 2: return self._usage_and_fail()
run_command_start ==
    /\ pc = "start"
    /\ pc' = IF Len(argv) < 2 THEN "usage" ELSE "resolve"
    /\ UNCHANGED <<doc, summary, escaped, subclasses, command_name_to_class, handler, shutting_down, argv, command,
                   args, bpc, iter, exc, stdout, stderr, api_calls, result, interrupts, runs,
                   branches, process>>

\* A lookup that ignores the case of the first letter of the command name.
Lookup_ignoring_initial_case(action, registry) ==
    LET key == IF action = "" THEN action
               ELSE lower(Ch(action, 1)) \o SubSeq(action, 2, Len(action))
    IN  IF key \in DOMAIN registry THEN Some(registry[key]) ELSE None

\* action in self.command_name_to_class, and self.command_name_to_class[action]
Lookup(action, registry) ==
    IF action \in DOMAIN registry THEN Some(registry[action]) ELSE None

\* action = argv[1]; if action not in self.command_name_to_class: return
\* self._usage_and_fail(); command = self.command_name_to_class[action](self)
run_command_resolve ==
    /\ pc = "resolve"
    /\ LET found == Lookup(argv[2], command_name_to_class)
       IN  IF found = None
           THEN command' = command /\ pc' = "usage"
           ELSE command' = found[1] /\ pc' = "parse"
    /\ UNCHANGED <<doc, summary, escaped, subclasses, command_name_to_class, handler, shutting_down, argv, args, bpc,
                   iter, exc, stdout, stderr, api_calls, result, interrupts, runs, branches,
                   process>>

\* A dispatcher that answers a schema violation with the general usage.
AfterParse_general_usage(parsed) == IF parsed = None THEN "usage" ELSE "execute"

\* A dispatcher that runs the body whatever the parser answered.
AfterParse_runs_anyway(parsed) == "execute"

\* if args is None: the usage of the command, else try: command.run(args)
AfterParse(parsed) == IF parsed = None THEN "command_usage" ELSE "execute"

\* args = command.parse_arg_list(argv[2:]); if args is None: ...
run_command_parse ==
    /\ pc = "parse"
    /\ LET parsed == parse_arg_list(Cls(command), SubSeq(argv, 3, Len(argv)))
       IN  /\ args' = parsed
           /\ pc' = AfterParse(parsed)
           /\ bpc' = IF parsed = None THEN bpc ELSE 1
           /\ runs' = IF parsed = None THEN runs ELSE runs + 1
    /\ UNCHANGED <<doc, summary, escaped, subclasses, command_name_to_class, handler, shutting_down, argv, command,
                   iter, exc, stdout, stderr, api_calls, result, interrupts, branches, process>>

\* self._print_stderr(command.command_usage()); return 1
run_command_usage ==
    /\ pc = "command_usage"
    /\ stderr' = Append(stderr, CommandUsages[command])
    /\ result' = Returned(Some(1))
    /\ pc' = "returned"
    /\ UNCHANGED <<doc, summary, escaped, subclasses, command_name_to_class, handler, shutting_down, argv, command,
                   args, bpc, iter, exc, stdout, api_calls, interrupts, runs, branches, process>>

\* ConsoleTool._usage_and_fail, called from run_command
usage_and_fail ==
    /\ pc = "usage"
    /\ stderr' = stderr \o UsageLines(command_name_to_class)
    /\ result' = Returned(Some(1))
    /\ pc' = "returned"
    /\ UNCHANGED <<doc, summary, escaped, subclasses, command_name_to_class, handler, shutting_down, argv, command,
                   args, bpc, iter, exc, stdout, api_calls, interrupts, runs, branches, process>>

\* ------------------------------------------------------------------------
\* The command body: one action per kind of instruction.

Prog == Body(command, args[1], command_name_to_class)

Ins == Prog[bpc]

InBody(ops) == pc = "execute" /\ Ins.op \in ops

\* The instruction after instruction i: the end of a loop body leads back
\* to the head of the loop.
After(i) == IF Prog[i + 1].op = "endfor" THEN i - Prog[i + 1].n ELSE i + 1

\* An exception leaves the body: run_command's except clause for it is next.
\* A dispatcher with one clause for every B2Error.
ExceptClause_generic_only(e) ==
    IF e.type = "KeyboardInterrupt" THEN "except_KeyboardInterrupt" ELSE "except_B2Error"

\* except MissingAccountData comes before except B2Error.
ExceptClause(e) ==
    IF e.type = "MissingAccountData" THEN "except_MissingAccountData"
    ELSE IF e.type = "KeyboardInterrupt" THEN "except_KeyboardInterrupt"
    ELSE "except_B2Error"

body_print ==
    /\ InBody({"print"})
    /\ stdout' = Append(stdout, Ins.a)
    /\ bpc' = After(bpc)
    /\ UNCHANGED <<doc, summary, escaped, subclasses, command_name_to_class, handler, shutting_down, argv, pc,
                   command, args, iter, exc, stderr, api_calls, result, interrupts, runs,
                   branches, process>>

body_print_if ==
    /\ InBody({"print_if"})
    /\ \E cond \in BOOLEAN : stdout' = IF cond THEN Append(stdout, Ins.a) ELSE stdout
    /\ bpc' = After(bpc)
    /\ UNCHANGED <<doc, summary, escaped, subclasses, command_name_to_class, handler, shutting_down, argv, pc,
                   command, args, iter, exc, stderr, api_calls, result, interrupts, runs,
                   branches, process>>

body_call ==
    /\ InBody({"call"})
    /\ api_calls' = Append(api_calls, Ins.a)
    /\ bpc' = After(bpc)
    /\ UNCHANGED <<doc, summary, escaped, subclasses, command_name_to_class, handler, shutting_down, argv, pc,
                   command, args, iter, exc, stdout, stderr, result, interrupts, runs,
                   branches, process>>

\* The API call returns.
body_api_return ==
    /\ InBody({"api", "api_try"})
    /\ api_calls' = Append(api_calls, Ins.a)
    /\ bpc' = After(bpc)
    /\ UNCHANGED <<doc, summary, escaped, subclasses, command_name_to_class, handler, shutting_down, argv, pc,
                   command, args, iter, exc, stdout, stderr, result, interrupts, runs,
                   branches, process>>

\* The API call raises a domain failure: the body's own except B2Error
\* catches it, or it leaves the body.
body_api_raise ==
    /\ InBody({"api", "api_try"})
    /\ api_calls' = Append(api_calls, Ins.a)
    /\ \E e \in DomainFailures :
          /\ exc' = Some(e)
          /\ IF Ins.op = "api_try"
             THEN bpc' = bpc + Ins.n /\ pc' = pc /\ escaped' = escaped
             ELSE bpc' = bpc /\ pc' = ExceptClause(e) /\ escaped' = Some(e)
    /\ UNCHANGED <<doc, summary, subclasses, command_name_to_class, handler, shutting_down, argv, command,
                   args, iter, stdout, stderr, result, interrupts, runs, branches, process>>

\* for item in ...: the loop body is entered for one more item, or the
\* items are exhausted.
body_for ==
    /\ InBody({"for"})
    /\ \/ iter < MaxItems /\ iter' = iter + 1 /\ bpc' = bpc + 1
       \/ iter' = iter /\ bpc' = After(bpc + Ins.n + 1)
    /\ UNCHANGED <<doc, summary, escaped, subclasses, command_name_to_class, handler, shutting_down, argv, pc,
                   command, args, exc, stdout, stderr, api_calls, result, interrupts, runs,
                   branches, process>>

\* raise BadFileInfo(info)
body_raise ==
    /\ InBody({"raise"})
    /\ exc' = Some([type |-> Ins.a, msg |-> Ins.b])
    /\ escaped' = Some([type |-> Ins.a, msg |-> Ins.b])
    /\ pc' = ExceptClause([type |-> Ins.a, msg |-> Ins.b])
    /\ UNCHANGED <<doc, summary, subclasses, command_name_to_class, handler, shutting_down, argv, command,
                   args, bpc, iter, stdout, stderr, api_calls, result, interrupts, runs,
                   branches, process>>

\* An exception that is neither a B2Error nor KeyboardInterrupt matches no
\* except clause of run_command and leaves it.
body_raise_other ==
    /\ InBody({"raise_other"})
    /\ exc' = Some([type |-> Ins.a, msg |-> Ins.b])
    /\ escaped' = Some([type |-> Ins.a, msg |-> Ins.b])
    /\ result' = Raised(Ins.a)
    /\ pc' = "raised"
    /\ UNCHANGED <<doc, summary, subclasses, command_name_to_class, handler, shutting_down, argv, command,
                   args, bpc, iter, stdout, stderr, api_calls, interrupts, runs,
                   branches, process>>

\* self._print_stderr('ERROR: unable to authorize account: ' + str(e))
body_print_stderr_exc ==
    /\ InBody({"print_stderr_exc"})
    /\ stderr' = Append(stderr, Ins.a \o str(exc[1]))
    /\ bpc' = After(bpc)
    /\ UNCHANGED <<doc, summary, escaped, subclasses, command_name_to_class, handler, shutting_down, argv, pc,
                   command, args, iter, exc, stdout, api_calls, result, interrupts, runs,
                   branches, process>>

\* A dispatcher that turns every result of a body into 0 or 1.
ReturnOf_normalised(n) == Returned(Some(IF n = 0 THEN 0 ELSE 1))

\* return command.run(args): the body's result is run_command's.
ReturnOf(n) == Returned(Some(n))

\* The body returns.
body_return ==
    /\ InBody({"return"})
    /\ result' = ReturnOf(Ins.n)
    /\ pc' = "returned"
    /\ UNCHANGED <<doc, summary, escaped, subclasses, command_name_to_class, handler, shutting_down, argv, command,
                   args, bpc, iter, exc, stdout, stderr, api_calls, interrupts, runs, branches,
                   process>>

\* Help.run: return self.console_tool._usage_and_fail()
body_usage ==
    /\ InBody({"usage"})
    /\ stderr' = stderr \o UsageLines(command_name_to_class)
    /\ result' = ReturnOf(1)
    /\ pc' = "returned"
    /\ UNCHANGED <<doc, summary, escaped, subclasses, command_name_to_class, handler, shutting_down, argv, command,
                   args, bpc, iter, exc, stdout, api_calls, interrupts, runs, branches,
                   process>>

\* ------------------------------------------------------------------------
\* The except clauses of run_command.

\* 'ERROR: %s  Use: b2 authorize_account' % (str(e),)
MissingAccountDataMessage(e) == "ERROR: " \o str(e) \o "  Use: b2 authorize_account"

\* A message without the marker.
B2ErrorMessage_no_marker(e) == str(e)

\* 'ERROR: %s' % (str(e),)
B2ErrorMessage(e) == "ERROR: " \o str(e)

except_MissingAccountData ==
    /\ pc = "except_MissingAccountData"
    /\ stderr' = Append(stderr, MissingAccountDataMessage(exc[1]))
    /\ branches' = Append(branches, "MissingAccountData")
    /\ result' = Returned(Some(1))
    /\ pc' = "returned"
    /\ UNCHANGED <<doc, summary, escaped, subclasses, command_name_to_class, handler, shutting_down, argv, command,
                   args, bpc, iter, exc, stdout, api_calls, interrupts, runs, process>>

except_B2Error ==
    /\ pc = "except_B2Error"
    /\ stderr' = Append(stderr, B2ErrorMessage(exc[1]))
    /\ branches' = Append(branches, "B2Error")
    /\ result' = Returned(Some(1))
    /\ pc' = "returned"
    /\ UNCHANGED <<doc, summary, subclasses, command_name_to_class, handler, shutting_down, argv, command,
                   args, bpc, iter, exc, escaped, stdout, api_calls, interrupts, runs, process>>

\* self._print('\nInterrupted.  Shutting down...\n'), and the function ends
\* without a return statement: it returns None.
except_KeyboardInterrupt ==
    /\ pc = "except_KeyboardInterrupt"
    /\ stdout' = Append(stdout, "\nInterrupted.  Shutting down...\n")
    /\ branches' = Append(branches, "KeyboardInterrupt")
    /\ result' = Returned(None)
    /\ pc' = "returned"
    /\ UNCHANGED <<doc, summary, escaped, subclasses, command_name_to_class, handler, shutting_down, argv, command,
                   args, bpc, iter, exc, stderr, api_calls, interrupts, runs, process>>

\* ------------------------------------------------------------------------
\* SIGINT.  Python runs the handler in the main thread, between two
\* bytecodes of whatever the main thread is executing.

Delivered == Append(interrupts, [at |-> pc, flag |-> shutting_down])

\* utils.set_shutting_down(): the flag is true afterwards.
set_shutting_down(flag) == TRUE

\* A handler that raises the cancellation and leaves the flag as it is.
keyboard_interrupt_handler_raise_only(flag) == flag

\* keyboard_interrupt_handler: set_shutting_down(), then raise
\* KeyboardInterrupt().  The flag at the moment the exception is raised.
keyboard_interrupt_handler(flag) == set_shutting_down(flag)

\* Before signal.signal has run the disposition is Python's default handler,
\* which raises KeyboardInterrupt and sets no flag: in main the process ends
\* with a traceback, in run_command the exception leaves it.
interrupt_default ==
    /\ Len(interrupts) < MaxInterrupts
    /\ handler = "default"
    /\ pc \in {"main", "run_command"}
    /\ interrupts' = Delivered
    /\ IF pc = "main"
       THEN /\ process' = [state |-> "traceback", code |-> None]
            /\ pc' = "exited"
            /\ result' = result
       ELSE /\ process' = process
            /\ pc' = "raised"
            /\ result' = Raised("KeyboardInterrupt")
    /\ UNCHANGED <<doc, summary, escaped, subclasses, command_name_to_class, handler, shutting_down, argv, command,
                   args, bpc, iter, exc, stdout, stderr, api_calls, runs, branches>>

\* keyboard_interrupt_handler while run_command is outside its try
\* statement (before it, or inside one of its except clauses): the flag is
\* set and KeyboardInterrupt leaves run_command.
interrupt_outside_try ==
    /\ Len(interrupts) < MaxInterrupts
    /\ handler = "keyboard_interrupt_handler"
    /\ pc \in {"start", "resolve", "parse", "command_usage", "usage",
               "except_MissingAccountData", "except_B2Error", "except_KeyboardInterrupt"}
    /\ interrupts' = Delivered
    /\ shutting_down' = keyboard_interrupt_handler(shutting_down)
    /\ result' = Raised("KeyboardInterrupt")
    /\ pc' = "raised"
    /\ UNCHANGED <<doc, summary, escaped, subclasses, command_name_to_class, handler, argv, command, args, bpc, iter,
                   exc, stdout, stderr, api_calls, runs, branches, process>>

\* keyboard_interrupt_handler while the command body runs: the flag is set
\* and KeyboardInterrupt is raised in the body, which has no clause for it
\* (except B2Error does not catch it), so run_command's clause is next.
interrupt_in_body ==
    /\ Len(interrupts) < MaxInterrupts
    /\ handler = "keyboard_interrupt_handler"
    /\ pc = "execute"
    /\ interrupts' = Delivered
    /\ shutting_down' = keyboard_interrupt_handler(shutting_down)
    /\ exc' = Some([type |-> "KeyboardInterrupt", msg |-> ""])
    /\ escaped' = Some([type |-> "KeyboardInterrupt", msg |-> ""])
    /\ pc' = ExceptClause([type |-> "KeyboardInterrupt", msg |-> ""])
    /\ UNCHANGED <<doc, summary, subclasses, command_name_to_class, handler, argv, command, args, bpc, iter,
                   stdout, stderr, api_calls, result, runs, branches, process>>

\* keyboard_interrupt_handler inside the try statement of
\* Command._print_stderr: its bare except catches KeyboardInterrupt, prints
\* two lines to sys.stderr and calls sys.exit(1); SystemExit leaves
\* run_command.
interrupt_in_print_stderr ==
    /\ Len(interrupts) < MaxInterrupts
    /\ handler = "keyboard_interrupt_handler"
    /\ InBody({"print_stderr_exc"})
    /\ interrupts' = Delivered
    /\ shutting_down' = keyboard_interrupt_handler(shutting_down)
    /\ stderr' = stderr \o <<"\nERROR: Unable to print unicode.  Encoding for stderr is: '<encoding>'",
                             "Trying to print: <repr(args)>">>
    /\ exc' = Some([type |-> "SystemExit", msg |-> "1"])
    /\ escaped' = Some([type |-> "SystemExit", msg |-> "1"])
    /\ result' = Raised("SystemExit")
    /\ pc' = "raised"
    /\ UNCHANGED <<doc, summary, subclasses, command_name_to_class, handler, argv, command, args, bpc, iter,
                   stdout, api_calls, runs, branches, process>>

\* keyboard_interrupt_handler after run_command has returned, while main
\* flushes the streams: KeyboardInterrupt ends main with a traceback.
interrupt_after_return ==
    /\ Len(interrupts) < MaxInterrupts
    /\ handler = "keyboard_interrupt_handler"
    /\ pc = "returned"
    /\ interrupts' = Delivered
    /\ shutting_down' = keyboard_interrupt_handler(shutting_down)
    /\ process' = [state |-> "traceback", code |-> None]
    /\ pc' = "exited"
    /\ UNCHANGED <<doc, summary, escaped, subclasses, command_name_to_class, handler, argv, command, args, bpc, iter,
                   exc, stdout, stderr, api_calls, result, runs, branches>>

\* main: sys.stdout.flush(); sys.stderr.flush(); os._exit(exit_status).
\* os._exit(None) raises TypeError, and an exception that left run_command
\* leaves main: SystemExit(1) ends the process with status 1, anything else
\* with a traceback.  The status of os._exit(n) is n modulo 256.
main_exit ==
    /\ pc \in {"returned", "raised"}
    /\ process' =
          IF result.kind = "return" /\ result.value # None
          THEN [state |-> "exited", code |-> Some(result.value[1] % 256)]
          ELSE IF result.kind = "raise" /\ result.exc = "SystemExit"
          THEN [state |-> "exited", code |-> Some(1)]
          ELSE [state |-> "traceback", code |-> None]
    /\ pc' = "exited"
    /\ UNCHANGED <<doc, summary, escaped, subclasses, command_name_to_class, handler, shutting_down, argv, command,
                   args, bpc, iter, exc, stdout, stderr, api_calls, result, interrupts, runs,
                   branches>>

Next ==
    \/ main_construct
    \/ run_command_install
    \/ run_command_start
    \/ run_command_resolve
    \/ run_command_parse
    \/ run_command_usage
    \/ usage_and_fail
    \/ body_print
    \/ body_print_if
    \/ body_call
    \/ body_api_return
    \/ body_api_raise
    \/ body_for
    \/ body_raise
    \/ body_raise_other
    \/ body_print_stderr_exc
    \/ body_return
    \/ body_usage
    \/ except_MissingAccountData
    \/ except_B2Error
    \/ except_KeyboardInterrupt
    \/ interrupt_default
    \/ interrupt_outside_try
    \/ interrupt_in_body
    \/ interrupt_in_print_stderr
    \/ interrupt_after_return
    \/ main_exit

Spec == Init /\ [][Next]_vars

\* ------------------------------------------------------------------------
\* Command.summary_line on its own: it is handed a documentation text and
\* returns its summary.

\* Lines a documentation text is made of: blank ones, usage lines at two
\* indentations, and usage lines that end with the continuation marker.
DocLines == {"", "  ", "    b2 x", "      <y>", "    b2 z \\"}

\* The documentation texts tried: __doc__ of every command class, and every
\* text of at most MaxDocLines of the lines above that has a non-blank line
\* (a text without one has no summary: lines[0] raises IndexError).
Docs ==
    {c.doc : c \in LoadedClasses}
        \cup {d \in SeqsUpTo(DocLines, MaxDocLines) : \E i \in 1..Len(d) : ~IsBlank(d[i])}

SummaryInit ==
    /\ doc \in Docs
    /\ summary = None
    /\ subclasses = ClassNames(Command__subclasses__)
    /\ command_name_to_class = <<>>
    /\ handler = "default"
    /\ shutting_down = FALSE
    /\ argv = <<>>
    /\ pc = "main"
    /\ command = ""
    /\ args = None
    /\ bpc = 0
    /\ iter = 0
    /\ exc = None
    /\ escaped = None
    /\ stdout = <<>>
    /\ stderr = <<>>
    /\ api_calls = <<>>
    /\ result = Running
    /\ interrupts = <<>>
    /\ runs = 0
    /\ branches = <<>>
    /\ process = [state |-> "running", code |-> None]

\* cls.summary_line() for a class whose __doc__ is doc.
summary_line_call ==
    /\ summary = None
    /\ summary' = Some(summary_line([doc |-> doc]))
    /\ UNCHANGED <<doc, subclasses, command_name_to_class, handler, shutting_down, argv, pc,
                   command, args, bpc, iter, exc, escaped, stdout, stderr, api_calls, result,
                   interrupts, runs, branches, process>>

SummaryNext == summary_line_call

SummarySpec == SummaryInit /\ [][SummaryNext]_vars

\* ------------------------------------------------------------------------
\* Properties.

\* run_command has ended, by a return or by an exception.
Finished == result.kind # "running"

\* No SIGINT was delivered so far.
NoInterrupt == interrupts = <<>>

InterruptNotice == "\nInterrupted.  Shutting down...\n"

\* The number of entries of a stream that satisfy Test.
Count(stream, Test(_)) == Cardinality({i \in 1..Len(stream) : Test(stream[i])})

HasErrorMarker(text) == contains(text, "ERROR:")

\* The general usage listing was printed.
ListingPrinted == InList("Usages:", stderr)

\* C1: whenever run_command returns, on whichever path (usage failure,
\* schema error, completion of the body, MissingAccountData, another B2Error,
\* user interrupt), what it returns is an integer exit code.
C1_ReturnsInteger == result.kind = "return" => result.value # None

\* argv names no command: it is too short, or argv[1] is no key of the
\* registry (compared as it is, case included).
NoSuchCommand ==
    pc # "main" /\ (Len(argv) < 2 \/ argv[2] \notin DOMAIN command_name_to_class)

\* C2: if argv has fewer than two tokens or argv[1] is not exactly a
\* canonical name, then (in an invocation no SIGINT interrupts) run_command
\* prints nothing to the output stream, runs no command body, calls no API
\* operation and does not raise; when it has ended it has returned 1 and the
\* diagnostic stream holds the general usage listing and nothing else.
C2_UnknownCommandUsage ==
    (NoSuchCommand /\ NoInterrupt) =>
        /\ stdout = <<>>
        /\ runs = 0
        /\ api_calls = <<>>
        /\ result.kind # "raise"
        /\ IF Finished
           THEN result = Returned(Some(1)) /\ stderr = UsageLines(command_name_to_class)
           ELSE stderr = <<>>

C2_Witness ==
    /\ pc = "returned"
    /\ NoInterrupt
    /\ Len(argv) >= 2
    /\ argv[2] = "List_buckets"
    /\ result = Returned(Some(1))
    /\ Len(stderr) > 7
    /\ stderr[1] = "This program provides command-line access to the B2 service."

\* The parser has signalled a schema violation for the resolved command.
SchemaViolation ==
    /\ command # ""
    /\ pc # "parse"
    /\ args = None
    /\ parse_arg_list(Cls(command), SubSeq(argv, 3, Len(argv))) = None

\* C3: when parse_arg_list yields no argument record for the resolved
\* command, then (in an invocation no SIGINT interrupts) the body is not
\* invoked, no API operation is called, nothing is printed to the output
\* stream and nothing is raised; when run_command has ended it has returned 1
\* and the diagnostic stream holds that command's usage text and nothing
\* else (so not the general listing).
C3_SchemaErrorUsage ==
    (SchemaViolation /\ NoInterrupt) =>
        /\ runs = 0
        /\ api_calls = <<>>
        /\ stdout = <<>>
        /\ result.kind # "raise"
        /\ IF Finished
           THEN /\ result = Returned(Some(1))
                /\ stderr = <<CommandUsages[command]>>
                /\ ~ListingPrinted
           ELSE stderr = <<>>

C3_Witness ==
    /\ pc = "returned"
    /\ NoInterrupt
    /\ command = "UploadFile"
    /\ argv = <<"b2", "upload_file", "--partSize">>
    /\ args = None
    /\ result = Returned(Some(1))

\* An exception of the given type left the command body.
BodyRaised(type) == escaped # None /\ escaped[1].type = type

HasHint(text) == contains(text, "Use: b2 authorize_account")

\* C4: if the body of a command raises MissingAccountData, then (in an
\* invocation no SIGINT interrupts) the exception does not leave
\* run_command, and once run_command has ended it has returned 1, only the
\* MissingAccountData clause has run, and the diagnostic stream holds exactly
\* one message, which contains 'Use: b2 authorize_account'.
C4_MissingAccountData ==
    (BodyRaised("MissingAccountData") /\ NoInterrupt) =>
        /\ result.kind # "raise"
        /\ IF Finished
           THEN /\ result = Returned(Some(1))
                /\ branches = <<"MissingAccountData">>
                /\ Len(stderr) = 1
                /\ Count(stderr, HasHint) = 1
           ELSE pc = "except_MissingAccountData" /\ branches = <<>> /\ stderr = <<>>

C4_Witness ==
    /\ pc = "returned"
    /\ NoInterrupt
    /\ command = "ListBuckets"
    /\ BodyRaised("MissingAccountData")
    /\ stderr = <<"ERROR: Missing account data  Use: b2 authorize_account">>

\* C5: if the body of a command raises a B2Error other than
\* MissingAccountData, then (in an invocation no SIGINT interrupts) the
\* exception does not leave run_command, and once run_command has ended it
\* has returned 1 and the diagnostic stream holds 'ERROR: ' followed by the
\* message of the failure, and nothing else.
C5_DomainFailure ==
    \A type \in {"B2Error", "BadFileInfo"} :
        (BodyRaised(type) /\ NoInterrupt) =>
            /\ result.kind # "raise"
            /\ IF Finished
               THEN /\ result = Returned(Some(1))
                    /\ branches = <<"B2Error">>
                    /\ stderr = <<"ERROR: " \o escaped[1].msg>>
               ELSE pc = "except_B2Error" /\ stderr = <<>>

C5_Witness ==
    /\ pc = "returned"
    /\ NoInterrupt
    /\ command = "Sync"
    /\ BodyRaised("B2Error")
    /\ stderr = <<"ERROR: Bucket not found">>
    /\ result = Returned(Some(1))

\* C6: if SIGINT is delivered (once) while a command body is executing,
\* the flag is set when the cancellation is raised, and when the invocation
\* has ended the interruption notice has been printed and no stream holds an
\* 'ERROR:' marker.
C6_InterruptDuringBody ==
    (Len(interrupts) = 1 /\ interrupts[1].at = "execute") =>
        /\ shutting_down
        /\ Finished =>
              /\ Count(stdout, LAMBDA t : t = InterruptNotice) = 1
              /\ Count(stdout, HasErrorMarker) = 0
              /\ Count(stderr, HasErrorMarker) = 0

\* The body has run to one of its return statements.
BodyCompleted ==
    /\ runs = 1
    /\ escaped = None
    /\ pc \in {"returned", "exited"}
    /\ Ins.op \in {"return", "usage"}

\* C7: when the body of the resolved command completes without raising,
\* run_command returns exactly the integer the body returned: 0, 1 or -1
\* are passed through as they are.
C7_ReturnsBodyResult ==
    BodyCompleted =>
        /\ result.kind = "return"
        /\ result.value = Some(IF Ins.op = "usage" THEN 1 ELSE Ins.n)
        /\ (command = "Version" => result.value = Some(0))
        /\ (command = "Help" => result.value = Some(1))
        /\ (command = "UploadFile" /\ Ins.n # 0 => result.value = Some(-1))

C7_Witness ==
    /\ BodyCompleted
    /\ command = "UploadFile"
    /\ result = Returned(Some(-1))

\* An upload_file whose arguments were parsed.
UploadParsed == command = "UploadFile" /\ args # None

\* The part size of the invocation: --partSize, or 100MB when it is omitted
\* or empty.
PartSizeText ==
    IF args[1]["partSize"] = None \/ args[1]["partSize"] = Some("") THEN "100MB"
    ELSE args[1]["partSize"][1]

\* The part size has a byte value: it is a number followed by a unit.
PartSizeReadable == human2bytes(PartSizeText) # None

\* The part size is below 100MB or above 5GB.
PartSizeOutOfRange ==
    /\ PartSizeReadable
    /\ \/ BytesLess(human2bytes(PartSizeText), <<100, 0>>)
       \/ BytesLess(<<5000, 0>>, human2bytes(PartSizeText))

InvalidPartSizePath ==
    /\ result = Returned(Some(-1))
    /\ stdout = <<"Invalid partSize specified">>
    /\ stderr = <<>>
    /\ ~InList("get_bucket_by_name", api_calls)
    /\ ~InList("upload_stream", api_calls)
    /\ ~InList("upload_local_file", api_calls)

AllInfoWellFormed == \A i \in 1..Len(args[1]["info"]) : contains(args[1]["info"][i], "=")

ListingLine(name) == "    " \o SummaryLines[name]

\* argv is help <name> for a key of the registry.
HelpForCommand ==
    /\ pc # "main"
    /\ Len(argv) = 3
    /\ argv[2] = "help"
    /\ argv[3] \in DOMAIN command_name_to_class

C10_RegistryTotal ==
    pc \notin {"main", "exited"} =>
        \A i \in 1..Len(subclasses) :
            /\ mixed_case_to_underscores(subclasses[i]) \in DOMAIN command_name_to_class
            /\ command_name_to_class[mixed_case_to_underscores(subclasses[i])] = subclasses[i]

\* C11: whenever a call of the API client has raised a domain failure in a
\* command body (and it is the exception in flight), that failure has left
\* the body for run_command: no body catches it to print an error text and
\* return a code of its own.
C11_BodiesOnlyRaise ==
    \A e \in DomainFailures : exc = Some(e) => escaped = Some(e)

\* The SIGINTs delivered while keyboard_interrupt_handler was installed.
HandlerRuns == {i \in 1..Len(interrupts) : interrupts[i].at \notin {"main", "run_command"}}

\* The flag is true exactly when keyboard_interrupt_handler has run: false
\* at the start, true from the handler's raise onwards.
FlagSetByHandler == shutting_down <=> HandlerRuns # {}

\* A step never resets the flag, and only a delivery of SIGINT to
\* keyboard_interrupt_handler changes it.
FlagSetOnce ==
    /\ shutting_down => shutting_down'
    /\ shutting_down' # shutting_down =>
          /\ handler = "keyboard_interrupt_handler"
          /\ Len(interrupts') = Len(interrupts) + 1

\* An interrupt that arrives when the flag is already true raises the
\* cancellation again and changes nothing else the program has written.
LaterInterruptOnlyRaises ==
    (shutting_down /\ Len(interrupts') > Len(interrupts)) =>
        /\ shutting_down'
        /\ \/ result' = Raised("KeyboardInterrupt")
           \/ process'.state = "traceback"
        /\ UNCHANGED <<stdout, stderr, api_calls, command_name_to_class, runs, branches,
                       handler, args, command>>

\* C12: the shutdown flag is false initially, is written only by the
\* interrupt handler, goes from false to true only and is never reset, is
\* true whenever the handler has raised its cancellation, and an interrupt
\* that arrives with the flag already true leaves it true and does nothing
\* but raise the cancellation again.
C12_ShutdownFlag ==
    /\ [](FlagSetByHandler)
    /\ [][FlagSetOnce /\ LaterInterruptOnlyRaises]_vars

C12_Witness ==
    /\ Len(interrupts) = 2
    /\ HandlerRuns = {1, 2}
    /\ interrupts[1].flag = FALSE
    /\ interrupts[2].flag = TRUE
    /\ interrupts[2].at = "except_KeyboardInterrupt"
    /\ shutting_down

\* The SIGINTs delivered to keyboard_interrupt_handler while run_command was
\* executing (from Resolve to the end of a Translate branch).
HandlerRunsInRunCommand == {i \in HandlerRuns : interrupts[i].at # "returned"}

\* C13: if SIGINT was delivered at some point of run_command after the
\* handler was installed, then once the invocation has ended run_command has
\* returned (the cancellation did not leave it) and the interruption notice
\* was printed.
C13_CleanStop ==
    (HandlerRunsInRunCommand # {} /\ Finished) =>
        /\ result.kind = "return"
        /\ InList(InterruptNotice, stdout)

\* The place of a program position in the pass Start -> Resolve -> Parse ->
\* Execute -> Translate -> end.
Rank(p) ==
    CASE p = "main" -> 0
      [] p = "run_command" -> 1
      [] p = "start" -> 2
      [] p = "resolve" -> 3
      [] p = "parse" -> 4
      [] p \in {"usage", "command_usage", "execute"} -> 5
      [] p \in {"except_MissingAccountData", "except_B2Error", "except_KeyboardInterrupt"} -> 6
      [] p \in {"returned", "raised"} -> 7
      [] p = "exited" -> 8

\* The body runs at most once, and only for a resolved command whose
\* arguments were parsed; at most one translation branch runs, and only
\* after the body.
OnePass ==
    /\ runs \in {0, 1}
    /\ Len(branches) <= 1
    /\ (pc = "execute" \/ Rank(pc) = 6 \/ branches # <<>>) => runs = 1
    /\ runs = 1 =>
          /\ args # None
          /\ Len(argv) >= 2
          /\ argv[2] \in DOMAIN command_name_to_class
          /\ command = command_name_to_class[argv[2]]

\* A step never goes back in the pass, starts the body only from Parse with
\* parsed arguments, and leaves the registry as the constructor built it.
OnePassStep ==
    /\ Rank(pc') >= Rank(pc)
    /\ runs' >= runs
    /\ runs' > runs => (pc = "parse" /\ pc' = "execute" /\ args' # None)
    /\ pc # "main" => command_name_to_class' = command_name_to_class

\* C14: an invocation is one pass Start -> Resolve -> Parse -> Execute ->
\* Translate: the body of the resolved command is invoked at most once, only
\* after resolution and parsing succeeded, never again after a failure; at
\* most one translation branch runs; and the registry is not changed after
\* its construction.
C14_SinglePass ==
    /\ [](OnePass)
    /\ [][OnePassStep]_vars

C14_Witness ==
    /\ pc = "returned"
    /\ command = "Sync"
    /\ runs = 1
    /\ branches = <<"B2Error">>
    /\ api_calls # <<>>
    /\ command_name_to_class = MakeRegistry(subclasses)

\* The lines of the documentation text without their common margin.
DocText == dedent(doc)

\* The first non-blank line of the documentation text.
FirstLine == CHOOSE i \in 1..Len(DocText) : ~IsBlank(DocText[i]) /\ \A j \in 1..(i - 1) : IsBlank(DocText[j])

\* The first line from FirstLine on that does not end with the continuation
\* marker (the last line of the text if every one of them ends with it).
LastLine ==
    LET open == {i \in FirstLine..Len(DocText) : ~endswith(DocText[i], "\\")}
    IN  IF open = {} THEN Len(DocText) ELSE CHOOSE i \in open : \A j \in open : i <= j

\* C15: for the documentation text of every command (and every other text
\* with a non-blank line), summary_line returns the lines of the text (less
\* the common margin) from the first non-blank line up to and including the
\* first line that does not end with '\', joined by newlines, and nothing
\* after it: one line for a one-line usage, both lines for the two-line
\* usages of sync and upload_file.
C15_SummaryLine ==
    summary # None =>
        /\ summary[1] = join("\n", SubSeq(DocText, FirstLine, LastLine))
        /\ (doc \in {Sync.doc, UploadFile.doc} =>
               /\ LastLine = FirstLine + 1
               /\ summary[1] = DocText[FirstLine] \o "\n" \o DocText[FirstLine + 1])
        /\ (doc \in {c.doc : c \in LoadedClasses \ {Sync, UploadFile}} =>
               /\ LastLine = FirstLine
               /\ summary[1] = DocText[FirstLine])

C15_Witness ==
    /\ doc = Sync.doc
    /\ summary # None
    /\ contains(summary[1], "\\\n")
    /\ endswith(summary[1], "<source> <destination>")
====
